---- MODULE Spec2Model ----
(***************************************************************************)
(* The EFF newsletter subscription workflow of certbot/_internal/eff.py:   *)
(* prepare_subscription stages an e-mail address on the account metadata   *)
(* (register_to_eff), handle_subscription later POSTs it and clears it.    *)
(* Python values are written as strings ("True", "False", "None", text).   *)
(***************************************************************************)
EXTENDS Naturals, Sequences, FiniteSets, TLC

VARIABLES
    meta,               \* acc.meta.register_to_eff of the account in memory
    disk,               \* register_to_eff as last written by storage.update_meta
    call,               \* the last entry point called, with its arguments
    events,             \* what the last call did, in order
    raised,             \* the exception that left the last call, or NoExc
    postsSincePrepare   \* requests.post calls made since the last prepare

vars == <<meta, disk, call, events, raised, postsSincePrepare>>

----------------------------------------------------------------------------
(* Bounds *)

MaxPosts == 2       \* handle is not called again after this many POSTs
MaxRetries == 1     \* how often a user says yes again when consent is re-asked

----------------------------------------------------------------------------
(* Python values *)

None == "None"
NoExc == "none"

Truthy(v) == v \notin {"None", "False", ""}

ValidEmails == {"a@eff.org", "b@eff.org"}
InvalidEmails == {"not-an-email"}
Emails == ValidEmails \cup InvalidEmails

\* util.safe_email: the syntax validator
safe_email(email) == email \in ValidEmails

\* exception classes and their base classes
Bases(exc) ==
    CASE exc = "HTTPError" -> {"HTTPError", "RequestException", "OSError"}
      [] exc = "ConnectionError" -> {"ConnectionError", "RequestException", "OSError"}
      [] exc = "Timeout" -> {"Timeout", "RequestException", "OSError"}
      [] exc = "JSONDecodeError" -> {"JSONDecodeError", "ValueError"}
      [] exc = "KeyError" -> {"KeyError", "LookupError"}
      [] OTHER -> {exc}

IsInstance(exc, classes) == exc # NoExc /\ Bases(exc) \cap classes # {}

Event(kind, arg) == [kind |-> kind, arg |-> arg]

Ret(value, evs) == [raised |-> NoExc, value |-> value, events |-> evs]
Raise(exc, evs) == [raised |-> exc, value |-> None, events |-> evs]

----------------------------------------------------------------------------
(* Name binding and calls *)

\* the names bound at module level: the imports, logger and the functions
ModuleNames ==
    {"logging", "Optional", "requests", "util", "configuration", "constants",
     "Account", "AccountFileStorage", "display_util", "logger",
     "prepare_subscription", "handle_subscription", "_want_subscription",
     "_get_subscription_email", "subscribe", "_check_response",
     "_report_failure"}

\* evaluating a name inside a function whose local names are `locals`
NameBound(name, locals) == name \in locals \cup ModuleNames

\* the number of parameters each helper is defined with
want_subscription_params == <<"invalid_email">>
get_subscription_email_params == <<>>

----------------------------------------------------------------------------
(* The consent prompt and the e-mail prompt *)

\* _want_subscription called with nargs arguments; answer is the user's reply
_want_subscription(nargs, answer, evs) ==
    IF nargs # Len(want_subscription_params)
    THEN Raise("TypeError", evs)
    ELSE IF ~NameBound("invalid", {"invalid_email", "invalid_prefix", "prompt"})
    THEN Raise("NameError", evs)
    ELSE IF ~NameBound("msg", {"invalid_email", "invalid_prefix", "prompt"})
    THEN Ret(IF answer THEN "True" ELSE "False",
             Append(evs, Event("yesno", <<"invalid_prefix", "prompt">>)))
    ELSE Ret(IF answer THEN "True" ELSE "False",
             Append(evs, Event("yesno", <<"msg">>)))

\* _get_subscription_email called with nargs arguments; email is config.email,
\* reuse the reply to the re-use question, entry the reply to input_text
_get_subscription_email(nargs, email, reuse, entry, evs) ==
    IF nargs # Len(get_subscription_email_params)
    THEN Raise("TypeError", evs)
    ELSE IF ~NameBound("config", {"reuse_email_msg", "msg", "code", "email"})
    THEN Raise("NameError", evs)
    ELSE LET asked == Append(evs, Event("yesno", <<"reuse_email_msg", email>>))
             typed == Append(asked, Event("input_text", <<"msg">>))
             errorsBound == NameBound("errors", {"reuse_email_msg", "msg", "code", "email"})
         IN  IF reuse
             THEN Ret(email, asked)
             ELSE IF entry.code = "MissingCommandlineFlag"
             THEN Raise(IF errorsBound THEN "MissingCommandlineFlag" ELSE "NameError", typed)
             ELSE IF entry.code # "ok"
             THEN Raise(IF errorsBound THEN "Error" ELSE "NameError", typed)
             ELSE IF safe_email(entry.text)
             THEN Ret(entry.text, Append(typed, Event("safe_email", <<entry.text>>)))
             ELSE Ret(None, Append(typed, Event("safe_email", <<entry.text>>)))

----------------------------------------------------------------------------
(* prepare_subscription *)

\* the user of one prepare call: the reply to the first consent prompt, to the
\* re-use question and to input_text, and how many times consent is given
\* again when it is re-asked
\* (input_text answers: a typed text, a cancel, or no terminal to ask on)
Entries ==
    [code : {"ok"}, text : {"a@eff.org", "not-an-email"}]
    \cup [code : {"cancel", "MissingCommandlineFlag"}, text : {""}]
Users == [consent : BOOLEAN, reuse : BOOLEAN, entry : Entries,
          again : 0..MaxRetries]
NoUser == [consent |-> FALSE, reuse |-> FALSE,
           entry |-> [code |-> "cancel", text |-> ""], again |-> 0]

Done(m, evs, exc) == [meta |-> m, events |-> evs, raised |-> exc]

\* acc.meta.register_to_eff is true: storage.update_meta(acc)
persist_if_pending(m, evs) ==
    IF Truthy(m) THEN Done(m, Append(evs, Event("update_meta", <<m>>)), NoExc)
    ELSE Done(m, evs, NoExc)

RECURSIVE prepare_loop(_, _, _, _, _, _)

\* a slip: the loop tests only that an address is there, not that it is valid
prepare_loop_unvalidated(address, email, user, again, m, evs) ==
    IF Truthy(address)
    THEN persist_if_pending(address, evs)
    ELSE LET want == _want_subscription(1, again > 0, evs)
         IN  IF want.raised # NoExc
             THEN Done(m, want.events, want.raised)
             ELSE IF ~Truthy(want.value)
             THEN Done(m, want.events, NoExc)
             ELSE LET got == _get_subscription_email(1, email, user.reuse,
                                                     user.entry, want.events)
                  IN  IF got.raised # NoExc
                      THEN Done(m, got.events, got.raised)
                      ELSE prepare_loop(got.value, email, user, again - 1,
                                        m, got.events)

\* the while loop, entered with config.eff_email_address = address
prepare_loop(address, email, user, again, m, evs) ==
    LET checked == IF Truthy(address)
                   THEN Append(evs, Event("safe_email", <<address>>))
                   ELSE evs
    IN  IF Truthy(address) /\ safe_email(address)
        THEN persist_if_pending(address, checked)
        ELSE LET want == _want_subscription(1, again > 0, checked)
             IN  IF want.raised # NoExc
                 THEN Done(m, want.events, want.raised)
                 ELSE IF ~Truthy(want.value)
                 THEN Done(m, want.events, NoExc)
                 ELSE LET got == _get_subscription_email(1, email, user.reuse,
                                                         user.entry, want.events)
                      IN  IF got.raised # NoExc
                          THEN Done(m, got.events, got.raised)
                          ELSE prepare_loop(got.value, email, user, again - 1,
                                            m, got.events)

\* prepare_subscription from its second statement on
prepare_from_consent(eff_email, eff_email_address, email, user, m) ==
    LET want == IF eff_email = "True"
                THEN Ret("True", <<>>)
                ELSE _want_subscription(0, user.consent, <<>>)
    IN  IF want.raised # NoExc
        THEN Done(m, want.events, want.raised)
        ELSE IF ~Truthy(want.value)
        THEN persist_if_pending(m, want.events)
        ELSE IF Truthy(eff_email_address)
        THEN prepare_loop(eff_email_address, email, user, user.again,
                          m, want.events)
        ELSE LET got == _get_subscription_email(0, email, user.reuse,
                                                user.entry, want.events)
             IN  IF got.raised # NoExc
                 THEN Done(m, got.events, got.raised)
                 ELSE prepare_loop(got.value, email, user, user.again,
                                   m, got.events)

\* a slip: the opt-out test is missing and either value of the flag is consent
prepare_without_opt_out(eff_email, eff_email_address, email, user, m) ==
    prepare_from_consent(IF eff_email = "False" THEN "True" ELSE eff_email,
                         eff_email_address, email, user, m)

\* eff_email, eff_email_address and email are the fields of config,
\* m is acc.meta.register_to_eff
prepare_subscription(eff_email, eff_email_address, email, user, m) ==
    IF eff_email = "False"
    THEN Done(m, <<>>, NoExc)
    ELSE prepare_from_consent(eff_email, eff_email_address, email, user, m)

----------------------------------------------------------------------------
(* subscribe and the classification of the response *)

ReasonInvalid == "your e-mail address appears to be invalid"
ReasonResponse == "there was a problem with the server response"

\* _report_failure: the message is joined from these parts and notified
_report_failure(reason) ==
    LET head == <<"We were unable to subscribe you the EFF mailing list">>
        because == IF reason # None THEN <<" because ", reason>> ELSE <<>>
        tail == <<". You can try again later by visiting https://act.eff.org.">>
    IN  Event("notify", head \o because \o tail)

\* response.raise_for_status(): HTTPError for a 4xx or 5xx status
raise_for_status(response) ==
    IF response.status_code >= 400 /\ response.status_code < 600
    THEN "HTTPError" ELSE NoExc

Missing == "<missing>"

\* response.json()['status']: the exception it raises, or NoExc
json_status_error(response) ==
    IF response.json = "invalid" THEN "JSONDecodeError"
    ELSE IF response.json # "object" THEN "TypeError"
    ELSE IF response.status = Missing THEN "KeyError"
    ELSE NoExc

\* truthiness of the JSON values a status field is drawn from
JsonTruthy(v) == v \in {"true", "1", "\"ok\""}

\* a slip: the body is read before the HTTP status is looked at
check_response_try_body_first(response) ==
    IF json_status_error(response) # NoExc
    THEN Raise(json_status_error(response), <<>>)
    ELSE IF raise_for_status(response) # NoExc
    THEN Raise(raise_for_status(response), <<>>)
    ELSE IF ~JsonTruthy(response.status)
    THEN Ret(None, <<_report_failure(ReasonInvalid)>>)
    ELSE Ret(None, <<>>)

\* the body of the try statement: the exception it ends with, and the events
check_response_try(response) ==
    IF raise_for_status(response) # NoExc
    THEN Raise(raise_for_status(response), <<>>)
    ELSE IF json_status_error(response) # NoExc
    THEN Raise(json_status_error(response), <<>>)
    ELSE IF ~JsonTruthy(response.status)
    THEN Ret(None, <<_report_failure(ReasonInvalid)>>)
    ELSE Ret(None, <<>>)

_check_response(response) ==
    LET body == check_response_try(response)
    IN  IF IsInstance(body.raised, {"HTTPError"})
        THEN Ret(None, Append(body.events, _report_failure(None)))
        ELSE IF IsInstance(body.raised, {"ValueError", "KeyError"})
        THEN Ret(None, Append(body.events, _report_failure(ReasonResponse)))
        ELSE body

\* net is what requests.post does: "ok" (it returns response) or the
\* exception it raises when the transport fails
subscribe(email, net, response) ==
    LET posted == <<Event("post", <<email>>)>>
    IN  IF net # "ok"
        THEN Raise(net, posted)
        ELSE LET checked == _check_response(response)
             IN  [checked EXCEPT !.events = posted \o checked.events]

----------------------------------------------------------------------------
(* handle_subscription *)

\* a slip: the pending field is cleared before it is read for the POST
handle_subscription_clear_first(dry_run, accGiven, m, net, response) ==
    IF dry_run \/ ~accGiven
    THEN Done(m, <<>>, NoExc)
    ELSE IF Truthy(m)
    THEN LET sub == subscribe(None, net, response)
         IN  IF sub.raised # NoExc
             THEN Done(None, sub.events, sub.raised)
             ELSE Done(None, Append(sub.events, Event("update_meta", <<None>>)),
                       NoExc)
    ELSE Done(m, <<>>, NoExc)

\* a slip: config.dry_run is not looked at
handle_subscription_in_dry_run(dry_run, accGiven, m, net, response) ==
    IF ~accGiven
    THEN Done(m, <<>>, NoExc)
    ELSE IF Truthy(m)
    THEN LET sub == subscribe(m, net, response)
         IN  IF sub.raised # NoExc
             THEN Done(m, sub.events, sub.raised)
             ELSE Done(None, Append(sub.events, Event("update_meta", <<None>>)),
                       NoExc)
    ELSE Done(m, <<>>, NoExc)

\* accGiven is false when acc is None; m is acc.meta.register_to_eff
handle_subscription(dry_run, accGiven, m, net, response) ==
    IF dry_run \/ ~accGiven
    THEN Done(m, <<>>, NoExc)
    ELSE IF Truthy(m)
    THEN LET sub == subscribe(m, net, response)
         IN  IF sub.raised # NoExc
             THEN Done(m, sub.events, sub.raised)
             ELSE Done(None, Append(sub.events, Event("update_meta", <<None>>)),
                       NoExc)
    ELSE Done(m, <<>>, NoExc)

----------------------------------------------------------------------------
(* The state machine *)

EffEmailFlags == {"True", "False", "None"}
AddressFlags == Emails \cup {None}
ContactEmails == {"b@eff.org", "not-an-email"}

StatusCodes == {100, 200, 204, 301, 404, 500}
NetResults == {"ok", "ConnectionError"}
StatusValues == {"true", "false", "0", "1", "\"\"", "\"ok\"", "null"}
Bodies ==
    [json : {"object"}, status : StatusValues \cup {Missing}]
    \cup [json : {"invalid", "list", "string", "number", "null"}, status : {Missing}]
Responses ==
    {[status_code |-> c, json |-> b.json, status |-> b.status] :
        c \in StatusCodes, b \in Bodies}

NoResponse == [status_code |-> 0, json |-> "invalid", status |-> Missing]

\* what one requests.post call does: it returns a response, or it raises
PostResults ==
    {[net |-> "ok", response |-> r] : r \in Responses}
    \cup {[net |-> e, response |-> NoResponse] : e \in NetResults \ {"ok"}}

Call(name, eff_email, address, email, user, dry_run, acc, net, response, posts) ==
    [name |-> name, eff_email |-> eff_email, eff_email_address |-> address,
     email |-> email, user |-> user, dry_run |-> dry_run, acc |-> acc,
     net |-> net, response |-> response, before |-> meta, diskBefore |-> disk,
     postsBefore |-> posts]

\* what storage holds after a call: the argument of its last update_meta
Stored(evs, old) ==
    LET idx == {i \in 1..Len(evs) : evs[i].kind = "update_meta"}
    IN  IF idx = {} THEN old
        ELSE evs[CHOOSE i \in idx : \A j \in idx : j <= i].arg[1]

Count(evs, kind) == Cardinality({i \in 1..Len(evs) : evs[i].kind = kind})

Init ==
    /\ meta = None
    /\ disk = None
    /\ call = [name |-> "init", eff_email |-> None, eff_email_address |-> None,
               email |-> None, user |-> NoUser, dry_run |-> FALSE, acc |-> TRUE, net |-> "ok",
               response |-> NoResponse, before |-> None, diskBefore |-> None,
               postsBefore |-> 0]
    /\ events = <<>>
    /\ raised = NoExc
    /\ postsSincePrepare = 0

Prepare ==
    \E eff_email \in EffEmailFlags, address \in AddressFlags,
       email \in ContactEmails, user \in Users :
        LET r == prepare_subscription(eff_email, address, email, user, meta)
        IN  /\ meta' = r.meta
            /\ disk' = Stored(r.events, disk)
            /\ events' = r.events
            /\ raised' = r.raised
            /\ call' = Call("prepare", eff_email, address, email, user, FALSE,
                            TRUE, "ok", NoResponse, 0)
            /\ postsSincePrepare' = 0

Handle ==
    /\ postsSincePrepare < MaxPosts
    /\ \E dry_run \in BOOLEAN, accGiven \in BOOLEAN, post \in PostResults :
        LET r == handle_subscription(dry_run, accGiven, meta, post.net,
                                     post.response)
        IN  /\ meta' = r.meta
            /\ disk' = Stored(r.events, disk)
            /\ events' = r.events
            /\ raised' = r.raised
            /\ call' = Call("handle", None, None, None, NoUser, dry_run,
                            accGiven, post.net, post.response,
                            postsSincePrepare)
            /\ postsSincePrepare' = postsSincePrepare + Count(r.events, "post")

Next == Prepare \/ Handle

Spec == Init /\ [][Next]_vars

----------------------------------------------------------------------------
(* What a call did *)

Posts == Count(events, "post")
Notifications == Count(events, "notify")
Updates == Count(events, "update_meta")
Prompts == Count(events, "yesno") + Count(events, "input_text")
Validations == Count(events, "safe_email")

\* the notifications of the call, each the sequence of its message parts
Notified == {events[i].arg : i \in {j \in 1..Len(events) : events[j].kind = "notify"}}
HasPart(message, part) == \E i \in 1..Len(message) : message[i] = part

\* nothing was done: no event, the metadata in memory and on disk as before
NoOp == events = <<>> /\ meta = call.before /\ disk = call.diskBefore

\* a handle call that got past its two tests and made a submission attempt
Attempt ==
    /\ call.name = "handle"
    /\ ~call.dry_run
    /\ call.acc
    /\ call.before # None

Is2xx(response) == response.status_code >= 200 /\ response.status_code < 300

\* the outcome the classification of section 4.3 gives a submission attempt
Outcome ==
    IF call.net # "ok" \/ ~Is2xx(call.response) THEN "ServerError"
    ELSE IF call.response.json # "object" \/ call.response.status = Missing
    THEN "MalformedResponse"
    ELSE IF ~JsonTruthy(call.response.status) THEN "InvalidEmail"
    ELSE "Success"

----------------------------------------------------------------------------
(* Claims *)

\* C1: after a handle call that is no dry run, has an account and finds a
\* pending e-mail, the pending field is null and the metadata has been
\* persisted, whatever the outcome of the submission attempt.
C1_ClearedAfterEveryAttempt ==
    Attempt => meta = None /\ disk = None /\ Updates = 1

\* C2: with no prepare in between, handle calls POST at most once: a handle
\* after one that attempted the submission does no POST, notifies nothing and
\* changes no metadata.
C2_AtMostOnePost ==
    /\ postsSincePrepare <= 1
    /\ (call.name = "handle" /\ call.postsBefore >= 1) => NoOp

\* C3: handle does nothing (no POST, no notification, pending field as it
\* was, nothing persisted) in a dry run, without an account, or when no
\* e-mail is pending.
C3_HandleNoOp ==
    (call.name = "handle" /\ (call.dry_run \/ ~call.acc \/ call.before = None))
        => NoOp /\ raised = NoExc

C3_Witness ==
    /\ call.name = "handle"
    /\ call.dry_run
    /\ call.acc
    /\ call.before \in ValidEmails
    /\ call.net = "ok"
    /\ meta = call.before
    /\ Posts = 0

\* C4: prepare called with the opt-out (eff_email False) shows no prompt,
\* validates nothing, leaves the pending field as it was and persists
\* nothing, whatever the address given, the contact e-mail and the metadata.
C4_OptOutNoOp ==
    (call.name = "prepare" /\ call.eff_email = "False")
        => NoOp /\ raised = NoExc /\ Prompts = 0 /\ Validations = 0
           /\ Updates = 0

C4_Witness ==
    /\ call.name = "prepare"
    /\ call.eff_email = "False"
    /\ call.eff_email_address \in ValidEmails
    /\ call.before \in ValidEmails
    /\ call.before # call.eff_email_address
    /\ meta = call.before

\* consent is affirmative: the flag is set, or it is unset and the user says yes
Affirmative ==
    /\ call.name = "prepare"
    /\ \/ call.eff_email = "True"
       \/ call.eff_email = "None" /\ call.user.consent

\* the first candidate e-mail of a prepare call: the address given, else the
\* contact e-mail the user accepts to re-use, else the text the user types
Candidate ==
    IF Truthy(call.eff_email_address) THEN call.eff_email_address
    ELSE IF call.user.reuse THEN call.email
    ELSE IF call.user.entry.code = "ok" THEN call.user.entry.text
    ELSE None

\* C5: with affirmative consent and a candidate e-mail that passes the
\* validator, prepare ends with exactly that e-mail pending and persisted.
C5_StagesValidCandidate ==
    (Affirmative /\ Candidate \in ValidEmails)
        => meta = Candidate /\ disk = Candidate /\ Updates = 1
           /\ raised = NoExc

\* C6: with an invalid candidate e-mail and a user who declines when consent
\* is asked again, prepare ends without raising, with the pending field as
\* it was and nothing persisted.
C6_DeclineAfterInvalid ==
    (Affirmative /\ Candidate \in InvalidEmails /\ call.user.again = 0)
        => raised = NoExc /\ meta = call.before /\ disk = call.diskBefore
           /\ Updates = 0

\* C7: a submission attempt whose POST fails in transport, or whose response
\* has a status outside 2xx, is a ServerError: it is reported with one
\* notification that has no "because" clause, and nothing is raised.
C7_ServerError ==
    (Attempt /\ (call.net # "ok" \/ ~Is2xx(call.response)))
        => /\ raised = NoExc
           /\ Notifications = 1
           /\ \A message \in Notified : ~HasPart(message, " because ")

\* C8: a 2xx response whose body is no JSON, or is JSON without a status
\* field (an object lacking the key, or a value that is no object), is a
\* MalformedResponse: it is reported with "there was a problem with the
\* server response" and no exception leaves submit.
C8_MalformedResponse ==
    (Attempt /\ call.net = "ok" /\ Is2xx(call.response)
     /\ (call.response.json # "object" \/ call.response.status = Missing))
        => /\ raised = NoExc
           /\ Notifications = 1
           /\ \A message \in Notified : HasPart(message, ReasonResponse)

\* C9: a 2xx response with a JSON object that has a status field is reported
\* as an invalid e-mail when the status is falsy and is a silent success when
\* it is truthy; the HTTP status is classified before the body, so a 4xx or
\* 5xx response is a server error whatever its body is.
C9_StatusField ==
    (Attempt /\ call.net = "ok")
        => /\ (Is2xx(call.response) /\ call.response.json = "object"
               /\ call.response.status # Missing)
                => /\ raised = NoExc
                   /\ IF JsonTruthy(call.response.status)
                      THEN Notifications = 0
                      ELSE /\ Notifications = 1
                           /\ \A message \in Notified :
                                HasPart(message, ReasonInvalid)
           /\ call.response.status_code >= 400
                => /\ raised = NoExc
                   /\ Notifications = 1
                   /\ \A message \in Notified :
                        /\ ~HasPart(message, ReasonInvalid)
                        /\ ~HasPart(message, ReasonResponse)

C9_Witness ==
    /\ Attempt
    /\ call.net = "ok"
    /\ call.response.status_code = 204
    /\ call.response.json = "object"
    /\ call.response.status = "0"
    /\ Notifications = 1
    /\ \E message \in Notified : HasPart(message, ReasonInvalid)

\* C10: a submission attempt notifies the user exactly once when its outcome
\* is not Success and not at all when it is Success.
C10_OneNotification ==
    Attempt => Notifications = (IF Outcome = "Success" THEN 0 ELSE 1)

----------------------------------------------------------------------------
(* Claims on what leaves a call and on the prompts *)

\* the places in the events of the call where something of this kind was done
At(kind) == {i \in 1..Len(events) : events[i].kind = kind}

\* prepare with affirmative consent and no address given asks for an e-mail
NeedsEmail == Affirmative /\ ~Truthy(call.eff_email_address)

\* ... and has to ask for free text: the user does not re-use the contact e-mail
NeedsEntry == NeedsEmail /\ ~call.user.reuse

\* C11: the only failure that leaves prepare or handle is the configuration
\* error of a non-interactive run (MissingCommandlineFlag); every other
\* failure is absorbed and the call returns normally.
C11_OnlyConfigurationErrorLeaves ==
    raised \in {NoExc, "MissingCommandlineFlag"}

\* C12: when prepare needs the free-text entry and the run is not
\* interactive, prepare ends with the MissingCommandlineFlag error, asks for
\* the text once, leaves the pending field as it was and persists nothing.
C12_NonInteractiveAborts ==
    (NeedsEntry /\ call.user.entry.code = "MissingCommandlineFlag")
        => /\ raised = "MissingCommandlineFlag"
           /\ Count(events, "input_text") = 1
           /\ meta = call.before
           /\ Updates = 0

\* C13: the pending field is non-null exactly from the moment prepare stages
\* an e-mail to the first submission attempt made for it: what prepare
\* stages is a validated e-mail, a handle call that attempts the submission
\* leaves the field null, and so no attempt follows another one without a
\* prepare in between.
C13_PendingLifecycle ==
    /\ (call.name = "prepare" /\ meta # call.before) => meta \in ValidEmails
    /\ (call.name = "handle" /\ Posts > 0) => meta = None /\ call.postsBefore = 0
    /\ (call.name = "handle" /\ Posts = 0) => meta = call.before

\* C14: in the loop on an invalid e-mail every new request for an e-mail
\* comes right after a consent prompt that was answered yes, and the first
\* decline ends prepare: with an invalid address given, consent is asked
\* again at least once, and a user who declines sees exactly that one prompt
\* and prepare returns.
C14_LoopAsksConsentEachTime ==
    (Affirmative /\ call.eff_email_address \in InvalidEmails)
        => /\ Count(events, "yesno") >= 1
           /\ \A i \in At("input_text") : i > 2 /\ events[i - 2].kind = "yesno"
           /\ call.user.again = 0
                => /\ raised = NoExc
                   /\ Count(events, "yesno") = 1
                   /\ Count(events, "input_text") = 0

\* C15: with affirmative consent, an address given is the first candidate
\* and no e-mail prompt is shown; without one the re-use question is asked,
\* and only when it is declined the free text is asked for, after it.
C15_CandidateOrder ==
    /\ (Affirmative /\ call.eff_email_address \in ValidEmails)
        => Count(events, "input_text") = 0 /\ Count(events, "yesno") <= 1
    /\ NeedsEmail
        => /\ \E i \in At("yesno") : events[i].arg = <<"reuse_email_msg", call.email>>
           /\ call.user.reuse => Count(events, "input_text") = 0
           /\ ~call.user.reuse => Count(events, "input_text") >= 1
           /\ \A i \in At("input_text") :
                i > 1 /\ events[i - 1].arg = <<"reuse_email_msg", call.email>>

\* C16: when prepare gets past the opt-out test and the pending field is
\* non-null when it ends (staged now, or pending from an earlier run), the
\* metadata has been persisted; when the field is null nothing is persisted.
C16_PersistsWhatIsPending ==
    (call.name = "prepare" /\ call.eff_email # "False")
        => /\ meta # None => Updates >= 1 /\ disk = meta
           /\ meta = None => Updates = 0

\* C17: prepare writes to the pending field, and persists, only an e-mail
\* that is non-empty and has passed the validator in that call.
C17_StagesOnlyValidated ==
    /\ meta \in ValidEmails \cup {None}
    /\ disk \in ValidEmails \cup {None}
    /\ (call.name = "prepare" /\ (meta # call.before \/ Updates > 0))
        => /\ safe_email(meta)
           /\ \A u \in At("update_meta") : events[u].arg = <<meta>>
           /\ meta # call.before
                => \E i \in At("safe_email") :
                        /\ events[i].arg = <<meta>>
                        /\ \A u \in At("update_meta") : i < u

C17_Witness ==
    /\ call.name = "prepare"
    /\ call.before \in ValidEmails
    /\ meta \in ValidEmails
    /\ meta # call.before
    /\ disk = meta
    /\ Validations = 1

\* C18: when the user cancels the free-text entry, the e-mail prompt raises
\* Error ("An e-mail address must be provided."), which ends prepare with the
\* pending field as it was and nothing persisted.
C18_CancelRaisesError ==
    (NeedsEntry /\ call.user.entry.code = "cancel")
        => /\ raised = "Error"
           /\ Count(events, "input_text") = 1
           /\ meta = call.before
           /\ Updates = 0

\* C19: a handle call POSTs at most once, the e-mail that was pending when it
\* started, which prepare validated; the POST comes first, then the field is
\* cleared and the cleared metadata persisted.
C19_PostsThePendingEmail ==
    call.name = "handle"
        => /\ Posts <= 1
           /\ \A i \in At("post") :
                /\ i = 1
                /\ events[i].arg = <<call.before>>
                /\ call.before \in ValidEmails
           /\ \A u \in At("update_meta") :
                /\ \E i \in At("post") : i < u
                /\ events[u].arg = <<None>>
                /\ u = Len(events)
                /\ meta = None

C19_Witness ==
    /\ Attempt
    /\ call.before = "b@eff.org"
    /\ Posts = 1
    /\ Notifications = 1
    /\ Updates = 1
    /\ meta = None

\* C20: when the flag is unset and the user answers no to the consent
\* prompt, prepare asks for no e-mail, validates nothing, returns with the
\* pending field as it was, and an e-mail pending from an earlier run stays
\* pending and is persisted again.
C20_DeclineKeepsPending ==
    (call.name = "prepare" /\ call.eff_email = "None" /\ ~call.user.consent)
        => /\ raised = NoExc
           /\ Count(events, "yesno") = 1
           /\ Count(events, "input_text") = 0
           /\ Validations = 0
           /\ meta = call.before
           /\ call.before # None => Updates = 1 /\ disk = call.before

====
